---- MODULE Spec2Model ----
(***************************************************************************)
(* Model of the maintenance scripts of paulround2tele/studio.               *)
(*                                                                         *)
(* Part 1: scripts/sync_openapi_with_backend.py, the OpenAPI synchronizer:  *)
(* load_yaml, remove_paths, remove_user_fields, save_yaml and main.  The    *)
(* document is an ordered tree (python dicts keep insertion order), the     *)
(* file is a sequence of YAML lines, and every operation that can raise     *)
(* returns the exception it raises together with the document as the       *)
(* in-place mutation left it.                                               *)
(*                                                                         *)
(* Part 2: the text fixers final-yaml-fix.py, fix-config-schema-            *)
(* indentation.py, fix-schema-refs.py and fix_any_types.py: the rewrite of  *)
(* each and the comparison that decides whether the file is written; the    *)
(* line pass of final-yaml-fix.py is also run one loop iteration at a time. *)
(*                                                                         *)
(* Part 3: recreate-config-files.py and recreate-config-files-fixed.py:     *)
(* the files main writes, in order, from its templates and mappings.        *)
(***************************************************************************)
EXTENDS Integers, Sequences, FiniteSets, TLC

VARIABLES file, doc, pc, err, log, run, file0, loaded, wrote, prev, stage, runs,
          script, text, text0, ret, fwrote,
          src_lines, fixed_lines, line_i, base_indent, prev_i, branch, iters,
          cfg_files, written_files, after_first, cfg_run

syncVars == <<file, doc, log, run, file0, loaded, wrote, prev, stage, runs>>
fixVars == <<text, text0, ret, fwrote>>
passVars == <<src_lines, fixed_lines, line_i, base_indent, prev_i, branch, iters>>
cfgVars == <<cfg_files, written_files, after_first, cfg_run>>
vars == <<syncVars, fixVars, passVars, cfgVars, script, pc, err>>

(***************************************************************************)
(* Bounds of the model.                                                     *)
(***************************************************************************)
MaxSchemas == 2
MaxRuns == 2

(***************************************************************************)
(* Python values: None, str, list and dict.  A dict is the sequence of its  *)
(* <<key, value>> pairs in insertion order; a list is a sequence of         *)
(* <<"-", value>> pairs.                                                    *)
(***************************************************************************)
Null == [k |-> "null", s |-> "", items |-> <<>>]
Str(x) == [k |-> "str", s |-> x, items |-> <<>>]
List(xs) == [k |-> "list", s |-> "", items |-> [i \in 1..Len(xs) |-> <<"-", xs[i]>>]]
Map(ps) == [k |-> "map", s |-> "", items |-> ps]
EmptyMap == Map(<<>>)
\* a second reference to the dict that is the value of schema `name`: what
\* yaml.safe_load builds for a YAML alias of an anchor set on that schema
Alias(name) == [k |-> "alias", s |-> name, items |-> <<>>]
NoDoc == [k |-> "unset", s |-> "", items |-> <<>>]

IsMap(v) == v.k = "map"

Keys(m) == [i \in 1..Len(m.items) |-> m.items[i][1]]

HasKey(m, key) == \E i \in 1..Len(m.items) : m.items[i][1] = key

Get(m, key) == m.items[CHOOSE i \in 1..Len(m.items) : m.items[i][1] = key][2]

\* dict.get(key, default)
GetDefault(m, key, default) == IF HasKey(m, key) THEN Get(m, key) ELSE default

\* del m[key]
DelKey(m, key) == Map(SelectSeq(m.items, LAMBDA p : p[1] # key))

\* m[key] = v : an existing key keeps its position, a new key goes last
SetKey(m, key, v) ==
    IF HasKey(m, key)
    THEN Map([i \in 1..Len(m.items) |->
                 IF m.items[i][1] = key THEN <<key, v>> ELSE m.items[i]])
    ELSE Map(Append(m.items, <<key, v>>))

(***************************************************************************)
(* The removal rule set.                                                    *)
(***************************************************************************)
Ep == "/api/v2/auth/permissions"
REMOVE_ENDPOINTS == <<Ep>>
\* a faulty variant: `roles` left out of the list
REMOVE_USER_FIELDS_permissions_only == <<"permissions">>

REMOVE_USER_FIELDS == <<"permissions", "roles">>

(***************************************************************************)
(* `x in v` and `del v[x]` as python evaluates them on each kind of value.  *)
(***************************************************************************)
\* the (string, substring) pairs of the strings of the model, other than s in s
SubstringPairs ==
    { <<"see /api/v2/auth/permissions", Ep>>,
      <<"see /api/v2/auth/permissions", "permissions">>,
      <<Ep, "permissions">>,
      <<"permissions and roles", "permissions">>,
      <<"permissions and roles", "roles">> }

StrContains(s, sub) == s = sub \/ <<s, sub>> \in SubstringPairs

\* `x in v` raises TypeError on None
InRaises(v) == v.k = "null"

\* `x in v`: a key of a dict, an element of a list, a substring of a str
In(x, v) ==
    CASE v.k = "map" -> HasKey(v, x)
      [] v.k = "list" -> \E i \in 1..Len(v.items) : v.items[i][2] = Str(x)
      [] v.k = "str" -> StrContains(v.s, x)
      [] OTHER -> FALSE

\* `del v[x]` with x a str raises TypeError on a list and on a str
DelRaises(v) == v.k # "map"

(***************************************************************************)
(* remove_paths.  The result is the document after the call, the lines      *)
(* printed, and the exception raised ("" when the call returns).            *)
(***************************************************************************)
\* one printed line
LogLine(what, name, where) == [msg |-> what, name |-> name, schema |-> where]

\* a faulty variant: a `break` after the first deletion
RECURSIVE RemoveEachFirstOnly(_, _, _, _, _)
RemoveEachFirstOnly(names, i, target, what, where) ==
    IF i > Len(names) THEN [val |-> target, log |-> <<>>, err |-> ""]
    ELSE IF InRaises(target) THEN [val |-> target, log |-> <<>>, err |-> "TypeError"]
    ELSE IF ~In(names[i], target)
         THEN RemoveEachFirstOnly(names, i + 1, target, what, where)
    ELSE [val |-> IF DelRaises(target) THEN target ELSE DelKey(target, names[i]),
          log |-> <<LogLine(what, names[i], where)>>,
          err |-> IF DelRaises(target) THEN "TypeError" ELSE ""]

\* `for x in names: if x in target: print(...); del target[x]`, from the i-th
\* name on: the loop of remove_paths over `paths` and the inner loop of
\* remove_user_fields over a schema's `properties`
RECURSIVE RemoveEach(_, _, _, _, _)
RemoveEach(names, i, target, what, where) ==
    IF i > Len(names) THEN [val |-> target, log |-> <<>>, err |-> ""]
    ELSE IF InRaises(target) THEN [val |-> target, log |-> <<>>, err |-> "TypeError"]
    ELSE IF ~In(names[i], target) THEN RemoveEach(names, i + 1, target, what, where)
    ELSE IF DelRaises(target)
         THEN [val |-> target, log |-> <<LogLine(what, names[i], where)>>,
               err |-> "TypeError"]
    ELSE LET rest == RemoveEach(names, i + 1, DelKey(target, names[i]), what, where)
         IN  [val |-> rest.val,
              log |-> <<LogLine(what, names[i], where)>> \o rest.log,
              err |-> rest.err]

\* a faulty variant: the membership test is made on the document, not on `paths`, so
\* that no endpoint is found
remove_paths_tests_document(openapi) ==
    IF ~IsMap(openapi)
    THEN [doc |-> openapi, log |-> <<>>, err |-> "AttributeError"]
    ELSE [doc |-> SetKey(openapi, "paths", GetDefault(openapi, "paths", EmptyMap)),
          log |-> <<>>, err |-> ""]

remove_paths(openapi) ==
    IF ~IsMap(openapi)
    THEN [doc |-> openapi, log |-> <<>>, err |-> "AttributeError"]
    ELSE LET paths == GetDefault(openapi, "paths", EmptyMap)
             r == RemoveEach(REMOVE_ENDPOINTS, 1, paths, "Removing endpoint", "")
         IN  IF r.err # ""
             THEN [doc |-> IF HasKey(openapi, "paths")
                           THEN SetKey(openapi, "paths", r.val) ELSE openapi,
                   log |-> r.log, err |-> r.err]
             ELSE [doc |-> SetKey(openapi, "paths", r.val),
                   log |-> r.log, err |-> ""]

(***************************************************************************)
(* remove_user_fields.                                                      *)
(***************************************************************************)
\* the test that sends a schema entry into the inner loop
HasProperties(schema) == IsMap(schema) /\ HasKey(schema, "properties")

\* a faulty variant: schema.setdefault("properties", {}) on every mapping entry
RECURSIVE RemoveFromSchemasSetDefault(_, _)
RemoveFromSchemasSetDefault(schemas, i) ==
    IF i > Len(schemas.items) THEN [val |-> schemas, log |-> <<>>, err |-> ""]
    ELSE LET name == schemas.items[i][1]
             schema == schemas.items[i][2]
         IN  IF ~IsMap(schema) THEN RemoveFromSchemasSetDefault(schemas, i + 1)
             ELSE LET r == RemoveEach(REMOVE_USER_FIELDS, 1,
                                      GetDefault(schema, "properties", EmptyMap),
                                      "Removing field", name)
                      schemas2 == SetKey(schemas, name,
                                         SetKey(schema, "properties", r.val))
                  IN  IF r.err # ""
                      THEN [val |-> schemas2, log |-> r.log, err |-> r.err]
                      ELSE LET rest == RemoveFromSchemasSetDefault(schemas2, i + 1)
                           IN  [val |-> rest.val, log |-> r.log \o rest.log,
                                err |-> rest.err]

\* `for schema_name, schema in schemas.items()`, from the i-th entry on
RECURSIVE RemoveFromSchemas(_, _)
RemoveFromSchemas(schemas, i) ==
    IF i > Len(schemas.items) THEN [val |-> schemas, log |-> <<>>, err |-> ""]
    ELSE LET name == schemas.items[i][1]
             schema == schemas.items[i][2]
         IN  IF ~HasProperties(schema) THEN RemoveFromSchemas(schemas, i + 1)
             ELSE LET r == RemoveEach(REMOVE_USER_FIELDS, 1, Get(schema, "properties"),
                                      "Removing field", name)
                      schemas2 == SetKey(schemas, name,
                                         SetKey(schema, "properties", r.val))
                  IN  IF r.err # ""
                      THEN [val |-> schemas2, log |-> r.log, err |-> r.err]
                      ELSE LET rest == RemoveFromSchemas(schemas2, i + 1)
                           IN  [val |-> rest.val, log |-> r.log \o rest.log,
                                err |-> rest.err]

remove_user_fields(openapi) ==
    IF ~IsMap(openapi)
    THEN [doc |-> openapi, log |-> <<>>, err |-> "AttributeError"]
    ELSE LET components == GetDefault(openapi, "components", EmptyMap)
         IN  IF ~IsMap(components)
             THEN [doc |-> openapi, log |-> <<>>, err |-> "AttributeError"]
             ELSE LET schemas == GetDefault(components, "schemas", EmptyMap)
                  IN  IF ~IsMap(schemas)
                      THEN [doc |-> openapi, log |-> <<>>, err |-> "AttributeError"]
                      ELSE LET r == RemoveFromSchemas(schemas, 1)
                               written == SetKey(openapi, "components",
                                                 SetKey(components, "schemas", r.val))
                           IN  IF r.err # ""
                               THEN [doc |-> IF HasKey(openapi, "components")
                                                /\ HasKey(components, "schemas")
                                             THEN written ELSE openapi,
                                     log |-> r.log, err |-> r.err]
                               ELSE [doc |-> written, log |-> r.log, err |-> ""]

(***************************************************************************)
(* The file: a sequence of YAML lines [ind, key, tok] in block style, as    *)
(* yaml.dump(data, f, sort_keys=False) writes them.  key is "-" for a list  *)
(* item and "" for a top-level scalar; tok is the scalar after the colon    *)
(* (a str is quoted where it would read as something else, so its tag is    *)
(* kept), or Nested when the value is on the lines that follow.  A value    *)
(* that the document holds twice is written once with an anchor, tok        *)
(* <<"anchor", id>> (`User: &id001` and the value on the lines that         *)
(* follow), and then as an alias, tok <<"alias", id>> (`/users: *id001`).   *)
(* The anchors of the model are on entries of `components.schemas`, and     *)
(* their aliases come after them in the document.                           *)
(***************************************************************************)
Nested == <<"nested", "">>
Line(ind, key, tok) == [ind |-> ind, key |-> key, tok |-> tok]

\* values written on one line: a scalar, an alias, `{}` and `[]`
OneLine(v) == v.k \in {"null", "str", "alias"} \/ v.items = <<>>

Tok(v) ==
    CASE v.k = "null" -> <<"null", "">>
      [] v.k = "str" -> <<"str", v.s>>
      [] v.k = "alias" -> <<"alias", v.s>>
      [] v.k = "map" -> <<"emptymap", "">>
      [] OTHER -> <<"emptylist", "">>

Val(tok) ==
    CASE tok[1] = "null" -> Null
      [] tok[1] = "str" -> Str(tok[2])
      [] tok[1] = "alias" -> Alias(tok[2])
      [] tok[1] = "emptymap" -> EmptyMap
      [] OTHER -> List(<<>>)

\* the items of a list, one `- item` line each (the lists of the model hold
\* one-line values)
DumpList(items, ind) == [i \in 1..Len(items) |-> Line(ind, "-", Tok(items[i][2]))]

\* the entries of a mapping at indentation ind; a nested mapping is indented
\* by two, a nested list is not indented
RECURSIVE DumpItems(_, _)
DumpItems(items, ind) ==
    IF items = <<>> THEN <<>>
    ELSE LET key == Head(items)[1]
             v == Head(items)[2]
             first == IF v.s = "" THEN Nested ELSE <<"anchor", v.s>>
             entry == IF OneLine(v) THEN <<Line(ind, key, Tok(v))>>
                      ELSE IF v.k = "map"
                           THEN <<Line(ind, key, first)>> \o DumpItems(v.items, ind + 2)
                           ELSE <<Line(ind, key, Nested)>> \o DumpList(v.items, ind)
         IN  entry \o DumpItems(Tail(items), ind)

\* the names of the schemas that value v holds a second reference to
RECURSIVE AliasedNames(_)
AliasedNames(v) ==
    IF v.k = "alias" THEN { v.s }
    ELSE UNION { AliasedNames(v.items[i][2]) : i \in 1..Len(v.items) }

\* the anchors the serializer generates, in the order it meets the values
AnchorIds == <<"id001", "id002", "id003">>

\* the anchor of schema `name`: the schemas that are referred to twice are
\* numbered in their order in `schemas`
AnchorOf(schemas, shared, name) ==
    LET i == CHOOSE j \in 1..Len(schemas.items) : schemas.items[j][1] = name
    IN  AnchorIds[Cardinality({ j \in 1..i : schemas.items[j][1] \in shared })]

\* value v with every alias carrying the anchor of the schema it refers to
RECURSIVE WithAnchorIds(_, _, _)
WithAnchorIds(v, schemas, shared) ==
    IF v.k = "alias" THEN [v EXCEPT !.s = AnchorOf(schemas, shared, v.s)]
    ELSE [v EXCEPT !.items =
             [i \in 1..Len(v.items) |->
                 <<v.items[i][1], WithAnchorIds(v.items[i][2], schemas, shared)>>]]

\* the document as the serializer writes it: the schemas referred to twice
\* carry their anchor (in the field s of the mapping), the aliases the anchor
\* of their schema
Anchored(v) ==
    IF AliasedNames(v) = {} THEN v
    ELSE LET components == Get(v, "components")
             schemas == Get(components, "schemas")
             shared == AliasedNames(v)
             marked == Map([i \in 1..Len(schemas.items) |->
                          LET name == schemas.items[i][1]
                              schema == schemas.items[i][2]
                          IN  IF name \in shared
                              THEN <<name, [schema EXCEPT
                                               !.s = AnchorOf(schemas, shared, name)]>>
                              ELSE schemas.items[i]])
         IN  WithAnchorIds(SetKey(v, "components", SetKey(components, "schemas", marked)),
                           schemas, shared)

\* yaml.dump
Dump(v) ==
    IF OneLine(v) THEN <<Line(0, "", Tok(v))>>
    ELSE IF v.k = "map" THEN DumpItems(Anchored(v).items, 0)
    ELSE DumpList(v.items, 0)

ParseFail == [ok |-> FALSE, val |-> Null, pos |-> 0]

\* the run of `- item` lines at indentation ind from line pos on
RECURSIVE ParseListItems(_, _, _)
ParseListItems(lines, pos, ind) ==
    IF pos > Len(lines) \/ lines[pos].ind # ind \/ lines[pos].key # "-"
    THEN [ok |-> TRUE, items |-> <<>>, pos |-> pos]
    ELSE IF lines[pos].tok = Nested THEN [ok |-> FALSE, items |-> <<>>, pos |-> 0]
    ELSE LET rest == ParseListItems(lines, pos + 1, ind)
         IN  [ok |-> rest.ok,
              items |-> <<<<"-", Val(lines[pos].tok)>>>> \o rest.items,
              pos |-> rest.pos]

\* the entries of the mapping at indentation ind from line pos on.  A line
\* indented deeper than the mapping, a list item or a bare scalar where a key
\* is expected is a syntax error.
RECURSIVE ParseItems(_, _, _)
ParseItems(lines, pos, ind) ==
    IF pos > Len(lines) \/ lines[pos].ind < ind
    THEN [ok |-> TRUE, items |-> <<>>, pos |-> pos]
    ELSE IF lines[pos].ind > ind \/ lines[pos].key \in {"-", ""}
    THEN [ok |-> FALSE, items |-> <<>>, pos |-> 0]
    ELSE LET l == lines[pos]
             \* the value of key l.key
             v == IF l.tok[1] \notin { "nested", "anchor" }
                  THEN [ok |-> TRUE, val |-> Val(l.tok), pos |-> pos + 1]
                  ELSE IF pos + 1 > Len(lines) \/ lines[pos + 1].key = ""
                          \/ (lines[pos + 1].key # "-" /\ lines[pos + 1].ind <= ind)
                          \/ (lines[pos + 1].key = "-" /\ lines[pos + 1].ind < ind)
                  THEN IF pos + 1 <= Len(lines) /\ lines[pos + 1].key = ""
                       THEN ParseFail
                       ELSE [ok |-> TRUE, val |-> Null, pos |-> pos + 1]
                  ELSE IF lines[pos + 1].key = "-"
                  THEN LET r == ParseListItems(lines, pos + 1, lines[pos + 1].ind)
                       IN  [ok |-> r.ok, val |-> [k |-> "list", s |-> "", items |-> r.items],
                            pos |-> r.pos]
                  ELSE LET r == ParseItems(lines, pos + 1, lines[pos + 1].ind)
                       IN  [ok |-> r.ok,
                            val |-> [k |-> "map", items |-> r.items,
                                     s |-> IF l.tok[1] = "anchor" THEN l.tok[2] ELSE ""],
                            pos |-> r.pos]
         IN  IF ~v.ok THEN [ok |-> FALSE, items |-> <<>>, pos |-> 0]
             ELSE LET rest == ParseItems(lines, v.pos, ind)
                  IN  [ok |-> rest.ok,
                       items |-> <<<<l.key, v.val>>>> \o rest.items,
                       pos |-> rest.pos]

\* the <<anchor, schema name>> pairs of the anchors set on the schemas of a
\* document as composed from the lines
AnchorsOf(raw) ==
    IF ~(/\ IsMap(raw) /\ HasKey(raw, "components") /\ IsMap(Get(raw, "components"))
         /\ HasKey(Get(raw, "components"), "schemas")
         /\ IsMap(Get(Get(raw, "components"), "schemas")))
    THEN {}
    ELSE LET schemas == Get(Get(raw, "components"), "schemas")
         IN  { <<schemas.items[j][2].s, schemas.items[j][1]>> :
                 j \in { i \in 1..Len(schemas.items) :
                            /\ IsMap(schemas.items[i][2])
                            /\ schemas.items[i][2].s # "" } }

\* an alias is of an anchor that was set before it: of a schema, and under a
\* key of the document that comes after `components`
AliasesDefined(raw) ==
    \A t \in 1..Len(raw.items) :
        AliasedNames(raw.items[t][2]) # {} =>
            /\ raw.items[t][1] # "components"
            /\ \E c \in 1..(t - 1) : raw.items[c][1] = "components"
            /\ \A id \in AliasedNames(raw.items[t][2]) :
                   \E pair \in AnchorsOf(raw) : pair[1] = id

\* the objects constructed: an alias is a reference to the schema that carries
\* its anchor, and a dict does not keep the anchor it was written with
RECURSIVE Resolve(_, _)
Resolve(v, anchors) ==
    IF v.k = "alias"
    THEN Alias((CHOOSE pair \in anchors : pair[1] = v.s)[2])
    ELSE [k |-> v.k,
          s |-> IF v.k = "map" THEN "" ELSE v.s,
          items |-> [i \in 1..Len(v.items) |->
                        <<v.items[i][1], Resolve(v.items[i][2], anchors)>>]]

\* yaml.safe_load: ok is FALSE where it raises yaml.YAMLError.  An empty file
\* loads as None.
Parse(lines) ==
    IF lines = <<>> THEN [ok |-> TRUE, val |-> Null]
    ELSE IF lines[1].key = ""
    THEN IF Len(lines) = 1 /\ lines[1].tok # Nested
         THEN [ok |-> TRUE, val |-> Val(lines[1].tok)]
         ELSE [ok |-> FALSE, val |-> Null]
    ELSE IF lines[1].key = "-"
    THEN LET r == ParseListItems(lines, 1, lines[1].ind)
         IN  [ok |-> r.ok /\ r.pos = Len(lines) + 1,
              val |-> [k |-> "list", s |-> "", items |-> r.items]]
    ELSE LET r == ParseItems(lines, 1, lines[1].ind)
             composed == r.ok /\ r.pos = Len(lines) + 1
                             /\ AliasesDefined(Map(r.items))
         IN  [ok |-> composed,
              val |-> IF composed
                      THEN Resolve(Map(r.items), AnchorsOf(Map(r.items)))
                      ELSE Null]

(***************************************************************************)
(* The documents the runs start from.                                       *)
(***************************************************************************)
\* the sequences over S without repetition
Arrangements(S) ==
    { q \in UNION { [1..n -> S] : n \in 0..Cardinality(S) } :
        \A i, j \in 1..Len(q) : i # j => q[i] # q[j] }

\* the subsequences of q, in q's order
RECURSIVE SubSeqs(_)
SubSeqs(q) ==
    IF q = <<>> THEN { <<>> }
    ELSE LET rest == SubSeqs(Tail(q))
         IN  rest \cup { <<Head(q)>> \o r : r \in rest }

PathKeys == { Ep, "/api/v2/users" }
FieldNames == <<"id", "permissions", "roles", "name">>
SchemaNames == <<"User", "Placeholder", "Admin", "Guest">>

Entries(keys, v) == [i \in 1..Len(keys) |-> <<keys[i], v>>]

PathsMaps == { Map(Entries(q, Str("operation"))) : q \in Arrangements(PathKeys) }

PathsValues ==
    PathsMaps \cup
    { Null, Str("none"), Str("see /api/v2/auth/permissions"),
      List(<<>>), List(<<Str("/api/v2/users")>>), List(<<Str(Ep)>>) }

\* the runs of consecutive elements of q
Windows(q) == { SubSeq(q, a, b) : a \in 1..(Len(q) + 1), b \in 0..Len(q) }

PropertiesValues ==
    { Map(Entries(q, Str("string"))) : q \in Windows(FieldNames) } \cup
    { Null, List(<<Str("permissions")>>) }

SchemaValues ==
    { Map(<<<<"type", Str("object")>>, <<"properties", p>>>>) : p \in PropertiesValues }
    \cup { Str("placeholder"), Map(<<<<"type", Str("string")>>>>) }

SchemasMaps ==
    { Map([i \in 1..Len(q) |-> <<SchemaNames[i], q[i]>>]) :
        q \in UNION { [1..n -> SchemaValues] : n \in 0..MaxSchemas } }

ComponentsValues ==
    { Map(<<<<"schemas", m>>>>) : m \in SchemasMaps } \cup
    { Null, Str("none"), EmptyMap,
      Map(<<<<"securitySchemes", Str("none")>>>>),
      Map(<<<<"schemas", Null>>>>),
      Map(<<<<"schemas", List(<<Str("User")>>)>>>>) }

\* the values that every value of the other subtree is combined with
UserSchema(fields) ==
    Map(<<<<"schemas", Map(<<<<"User",
        Map(<<<<"type", Str("object")>>,
              <<"properties", Map(Entries(fields, Str("string")))>>>>)>>>>)>>>>)

PathsFew == { Map(Entries(<<Ep, "/api/v2/users">>, Str("operation"))) }
ComponentsFew == { EmptyMap, UserSchema(FieldNames), UserSchema(<<"id", "name">>) }

TopKeys ==
    SubSeqs(<<"info", "paths", "components">>) \cup { <<"components", "paths">> }

TopValue(key, p, c) ==
    CASE key = "paths" -> p
      [] key = "components" -> c
      [] OTHER -> Str("title")

DocsOf(keySeqs, ps, cs) ==
    { Map([i \in 1..Len(keys) |-> <<keys[i], TopValue(keys[i], p, c)>>]) :
        keys \in keySeqs, p \in ps, c \in cs }

\* a schema with the listed fields below its `properties`: in the `properties`
\* of a property and under `items`
NestedSchema(fields) ==
    Map(<<<<"type", Str("object")>>,
          <<"properties", Map(Entries(fields, Str("string")))>>>>)

DeepSchema ==
    Map(<<<<"type", Str("object")>>,
          <<"properties", Map(<<<<"id", Str("string")>>,
                                <<"roles", Str("string")>>,
                                <<"manager", NestedSchema(<<"permissions", "roles">>)>>>>)>>,
          <<"items", NestedSchema(<<"permissions", "name">>)>>>>)

\* a `paths` with a schema written inline under a path
InlinePaths ==
    Map(<<<<Ep, NestedSchema(<<"roles">>)>>,
          <<"/api/v2/users", NestedSchema(<<"id", "permissions", "roles">>)>>>>)

DeepDocs ==
    DocsOf({ <<"paths", "components">>, <<"components", "paths">> }, { InlinePaths },
           { Map(<<<<"schemas", Map(<<<<"User", DeepSchema>>>>)>>>>),
             Map(<<<<"schemas", Map(<<<<"User", Str("placeholder")>>,
                                      <<"Admin", DeepSchema>>>>)>>>>) })

\* documents in which a path refers to a schema of `components.schemas` by a
\* YAML alias
SharedPaths(name) ==
    Map(<<<<Ep, Str("operation")>>, <<"/api/v2/users", Alias(name)>>>>)

SharedDocs ==
    DocsOf({ <<"components", "paths">>, <<"info", "components", "paths">> },
           { SharedPaths("User") }, { UserSchema(FieldNames), UserSchema(<<"id", "name">>) })
    \cup DocsOf({ <<"components", "paths">> }, { SharedPaths("Admin") },
                { Map(<<<<"schemas", Map(<<<<"User", NestedSchema(<<"id", "roles">>)>>,
                                         <<"Admin", DeepSchema>>>>)>>>>) })

Docs ==
    DocsOf(TopKeys, PathsValues, ComponentsFew)
    \cup DocsOf({ <<"components">>, <<"paths", "components">> }, PathsFew,
               ComponentsValues)
    \cup DeepDocs
    \cup SharedDocs
    \cup { Null, Str("text"), List(<<Str("item")>>) }

\* files that are not YAML: a dedent to a column no mapping is open at, a
\* list item in the middle of a mapping, and an alias of an anchor that is not
\* set
Malformed ==
    { << Line(0, "paths", Nested), Line(4, Ep, <<"str", "operation">>),
         Line(2, "info", <<"str", "title">>) >>,
      << Line(0, "info", <<"str", "title">>), Line(0, "-", <<"str", "item">>) >>,
      << Line(0, "paths", Nested), Line(2, "/api/v2/users", <<"alias", "user">>) >> }

\* a file as a person writes it: with an anchor name of their choice
HandWritten(lines) ==
    [i \in 1..Len(lines) |->
        IF lines[i].tok[1] \in { "anchor", "alias" }
        THEN [lines[i] EXCEPT !.tok = <<lines[i].tok[1], "user">>]
        ELSE lines[i]]

Files ==
    { Dump(d) : d \in Docs } \cup { HandWritten(Dump(d)) : d \in SharedDocs }
    \cup Malformed \cup { <<>> }

(***************************************************************************)
(* Part 2: the text fixers.  A text file is the sequence of its lines       *)
(* (content.split('\n')), a line the number of its leading blanks and the   *)
(* text after them, with the white space that ends the line if there is     *)
(* any; a blank line has the text "".                                       *)
(***************************************************************************)
MaxLines == 3

TLine(ind, txt) == [ind |-> ind, txt |-> txt]

IsBlank(l) == l.txt = ""

\* 'application/json:' in line
HasAppJson(l) == l.txt \in { "application/json:", "# application/json: body" }

\* the line matches `application/json:\s*\n`: nothing but white space follows
\* the colon
EndsWithAppJson(l) == l.txt = "application/json:"

\* the texts of the model that start with `schema:`, with one of
\* allOf: type: properties: $ref:, and with `$ref:`
StartsWithSchema(l) == l.txt = "schema:"
StartsWithRef(l) == l.txt = "$ref: '#/Item'"

\* line.strip() of a line that is not blank: the text without the white space
\* that follows it
Strip(t) == IF t = "type: object " THEN "type: object" ELSE t

\* the first line after line i that is not blank, 0 if there is none
RECURSIVE NextNonBlank(_, _)
NextNonBlank(lines, i) ==
    IF i + 1 > Len(lines) THEN 0
    ELSE IF ~IsBlank(lines[i + 1]) THEN i + 1
    ELSE NextNonBlank(lines, i + 1)

\* the number of white-space characters between the newline that ends line i
\* and the text of line m
RECURSIVE Gap(_, _, _)
Gap(lines, i, m) ==
    IF i + 1 = m THEN lines[m].ind
    ELSE lines[i + 1].ind + 1 + Gap(lines, i + 1, m)

\* `\n(\s+)(\s+)text` replaced by `\n\1text`: lines i+1..m with the last
\* white-space character before the text of line m removed, which is a blank of
\* its indentation or, at indentation 0, the newline of the blank line before it
DropLastSpace(lines, i, m) ==
    IF lines[m].ind >= 1
    THEN SubSeq(lines, i + 1, m - 1) \o <<TLine(lines[m].ind - 1, lines[m].txt)>>
    ELSE SubSeq(lines, i + 1, m - 2) \o <<TLine(lines[m - 1].ind, lines[m].txt)>>

\* `\s+` before the text of line i matches: the line is indented or is not the
\* first line
SpaceBefore(lines, i) == i > 1 \/ lines[i].ind >= 1

\* re.sub(r'(application/json:\s*\n)(\s+)(\s+)(schema:)', r'\1\2\4', content)
\* from line i on; with lead, the pattern starts with `\s+`
RECURSIVE SubSchemaIndent(_, _, _)
SubSchemaIndent(lines, i, lead) ==
    IF i > Len(lines) THEN <<>>
    ELSE LET m == NextNonBlank(lines, i)
         IN  IF /\ EndsWithAppJson(lines[i])
                /\ lead => SpaceBefore(lines, i)
                /\ m # 0
                /\ StartsWithSchema(lines[m])
                /\ Gap(lines, i, m) >= 2
             THEN <<lines[i]>> \o DropLastSpace(lines, i, m)
                      \o SubSchemaIndent(lines, m + 1, lead)
             ELSE <<lines[i]>> \o SubSchemaIndent(lines, i + 1, lead)

(***************************************************************************)
(* final-yaml-fix.py                                                        *)
(***************************************************************************)
\* next_content.startswith(keyword) for a keyword of schema_keywords + list_items
FinalKeywordLine(l) ==
    l.txt \in { "type: object", "type: object ", "$ref: '#/Item'", "format: uuid" }

\* the outer loop at index i, and the inner loop at index i of the block whose
\* `application/json:` line is indented by base
RECURSIVE FinalOuter(_, _)
RECURSIVE FinalInner(_, _, _)
FinalOuter(lines, i) ==
    IF i > Len(lines) THEN <<>>
    ELSE IF HasAppJson(lines[i])
    THEN <<lines[i]>> \o FinalInner(lines, i + 1, lines[i].ind)
    ELSE <<lines[i]>> \o FinalOuter(lines, i + 1)

FinalInner(lines, i, base) ==
    IF i > Len(lines) THEN <<>>
    ELSE LET l == lines[i]
         IN  IF IsBlank(l) THEN <<l>> \o FinalInner(lines, i + 1, base)
             ELSE IF l.ind <= base THEN FinalOuter(lines, i)
             ELSE IF l.txt = "schema:"
             THEN <<TLine(base + 2, "schema:")>> \o FinalInner(lines, i + 1, base)
             ELSE IF FinalKeywordLine(l)
             THEN <<TLine(base + 4, Strip(l.txt))>> \o FinalInner(lines, i + 1, base)
             ELSE IF l.ind > base + 4 /\ l.ind - (base + 4) >= 2
             THEN <<TLine(l.ind - 2, Strip(l.txt))>> \o FinalInner(lines, i + 1, base)
             ELSE <<l>> \o FinalInner(lines, i + 1, base)

FinalTransform(content) == FinalOuter(SubSchemaIndent(content, 1, FALSE), 1)

\* what a call of a fixer leaves in the file, whether it wrote, what it returns
Outcome(content, written, value) ==
    [file |-> content, wrote |-> written, ret |-> value]

\* a faulty variant: the file is written and True returned without the comparison
final_fix_writes_always(content) == Outcome(FinalTransform(content), TRUE, "True")

\* final-yaml-fix.py: fix_yaml_schema_indentation(file_path) on a file holding
\* content
final_fix_yaml_schema_indentation(content) ==
    IF FinalTransform(content) # content
    THEN Outcome(FinalTransform(content), TRUE, "True")
    ELSE Outcome(content, FALSE, "False")

(***************************************************************************)
(* fix-config-schema-indentation.py                                         *)
(***************************************************************************)
\* the texts that start with one of allOf: type: properties: $ref: - $ref: - type:
ConfigKeywordLine(l) ==
    l.txt \in { "type: object", "type: object ", "$ref: '#/Item'" }

\* re.sub(pattern2, r'\1\2\4', content) from line i on
RECURSIVE SubContentIndent(_, _)
SubContentIndent(lines, i) ==
    IF i > Len(lines) THEN <<>>
    ELSE LET j == NextNonBlank(lines, i)
             m == IF j = 0 THEN 0 ELSE NextNonBlank(lines, j)
         IN  IF /\ EndsWithAppJson(lines[i])
                /\ SpaceBefore(lines, i)
                /\ j # 0
                /\ lines[j].txt = "schema:"
                /\ (lines[j].ind >= 1 \/ j > i + 1)
                /\ m # 0
                /\ ConfigKeywordLine(lines[m])
                /\ Gap(lines, j, m) >= 2
             THEN SubSeq(lines, i, j) \o DropLastSpace(lines, j, m)
                      \o SubContentIndent(lines, m + 1)
             ELSE <<lines[i]>> \o SubContentIndent(lines, i + 1)

\* the loop over the lines from line i on; base is schema_base_indent, and is
\* -1 while in_schema_block is False
RECURSIVE ConfigLoop(_, _, _)
ConfigLoop(lines, i, base) ==
    IF i > Len(lines) THEN <<>>
    ELSE LET l == lines[i]
         IN  IF HasAppJson(l) THEN <<l>> \o ConfigLoop(lines, i + 1, l.ind)
             ELSE IF base = -1 THEN <<l>> \o ConfigLoop(lines, i + 1, base)
             ELSE IF IsBlank(l) THEN <<l>> \o ConfigLoop(lines, i + 1, base)
             ELSE IF l.ind <= base THEN <<l>> \o ConfigLoop(lines, i + 1, -1)
             ELSE IF l.txt = "schema:"
             THEN <<TLine(base + 2, "schema:")>> \o ConfigLoop(lines, i + 1, base)
             ELSE IF ConfigKeywordLine(l)
             THEN <<TLine(base + 4, Strip(l.txt))>> \o ConfigLoop(lines, i + 1, base)
             ELSE <<l>> \o ConfigLoop(lines, i + 1, base)

ConfigTransform(content) ==
    ConfigLoop(SubContentIndent(SubSchemaIndent(content, 1, TRUE), 1), 1, -1)

\* fix-config-schema-indentation.py: fix_yaml_schema_indentation(file_path)
config_fix_yaml_schema_indentation(content) ==
    IF ConfigTransform(content) # content
    THEN Outcome(ConfigTransform(content), TRUE, "True")
    ELSE Outcome(content, FALSE, "False")

(***************************************************************************)
(* fix-schema-refs.py                                                       *)
(***************************************************************************)
\* the blanks of the replacement r'\1          \2'
RefIndent == 10

\* re.sub(r'(\s+schema:\s*\n)\s*(\$ref:.*)', replacement, content) from line i on
RECURSIVE SubRefIndent(_, _)
SubRefIndent(lines, i) ==
    IF i > Len(lines) THEN <<>>
    ELSE LET m == NextNonBlank(lines, i)
         IN  IF /\ lines[i].txt = "schema:"
                /\ SpaceBefore(lines, i)
                /\ m # 0
                /\ StartsWithRef(lines[m])
             THEN SubSeq(lines, i, m - 1) \o <<TLine(RefIndent, lines[m].txt)>>
                      \o SubRefIndent(lines, m + 1)
             ELSE <<lines[i]>> \o SubRefIndent(lines, i + 1)

RefsTransform(content) == SubRefIndent(content, 1)

fix_schema_ref_indentation(content) ==
    IF RefsTransform(content) # content
    THEN Outcome(RefsTransform(content), TRUE, "True")
    ELSE Outcome(content, FALSE, "False")

(***************************************************************************)
(* fix_any_types.py: the lines of the model are TypeScript statements, and  *)
(* each substitution is given by the statements it rewrites.                *)
(***************************************************************************)
\* re.sub(r'Record<([^,>]+),\s*any>', r'Record<\1, unknown>', content)
SubRecord(t) ==
    IF t = "const a: Record<string, any> = {};"
    THEN "const a: Record<string, unknown> = {};" ELSE t

\* re.sub(r'Array<any>', 'Array<unknown>', content)
SubArray(t) ==
    IF t = "const b: Array<any> = [];" THEN "const b: Array<unknown> = [];" ELSE t

\* re.sub(r':\s*any\[\]', ': unknown[]', content)
SubBrackets(t) == IF t = "let c: any[] = [];" THEN "let c: unknown[] = [];" ELSE t

\* re.sub(r'\(([^:)]+):\s*any\)\s*=>', r'(\1: unknown) =>', content)
SubParam(t) ==
    IF t = "const f = (x: any) => x;" THEN "const f = (x: unknown) => x;" ELSE t

\* re.sub(r':\s*any(?![a-zA-Z_])', ': unknown', content)
SubColon(t) == IF t = "let d: any;" THEN "let d: unknown;" ELSE t

\* re.sub(r'\bas\s+any\b', 'as unknown', content)
SubAs(t) == IF t = "const e = d as any;" THEN "const e = d as unknown;" ELSE t

\* re.sub(r'WeakMap<any,\s*any,?\s*any>', 'WeakMap<object, unknown, unknown>', content)
SubWeakMap(t) ==
    IF t = "const w = new WeakMap<any, any, any>();"
    THEN "const w = new WeakMap<object, unknown, unknown>();" ELSE t

\* re.sub(r'Map<any,\s*any>', 'Map<unknown, unknown>', content)
SubMap(t) ==
    IF t = "const m = new Map<any, any>();"
    THEN "const m = new Map<unknown, unknown>();" ELSE t

AnyTransform(content) ==
    [i \in 1..Len(content) |->
        TLine(content[i].ind,
              SubMap(SubWeakMap(SubAs(SubColon(SubParam(SubBrackets(SubArray(
                  SubRecord(content[i].txt)))))))))]

\* fix_any_types_in_file(filepath), when nothing raises in its try block
fix_any_types_in_file(content) ==
    IF AnyTransform(content) # content
    THEN Outcome(AnyTransform(content), TRUE, "True")
    ELSE Outcome(content, FALSE, "False")

(***************************************************************************)
(* The files the fixers are run on.                                         *)
(***************************************************************************)
YamlLines ==
    { TLine(n, "application/json:") : n \in { 0, 2 } } \cup
    { TLine(0, "# application/json: body") } \cup
    { TLine(n, "schema:") : n \in { 0, 2, 4 } } \cup
    { TLine(n, "type: object") : n \in { 2, 4, 8 } } \cup
    { TLine(4, "type: object ") } \cup
    { TLine(n, "$ref: '#/Item'") : n \in { 4, 10 } } \cup
    { TLine(n, "title: Item") : n \in { 0, 6 } } \cup
    { TLine(6, "format: uuid") } \cup
    { TLine(0, "") }

TsLines ==
    { TLine(0, t) : t \in
        { "const a: Record<string, any> = {};", "const b: Array<any> = [];",
          "let c: any[] = [];", "const f = (x: any) => x;", "let d: any;",
          "const e = d as any;", "const m = new Map<any, any>();",
          "const w = new WeakMap<any, any, any>();", "let company: string;",
          "let u: unknown;" } }

Texts(alphabet) == UNION { [1..n -> alphabet] : n \in 1..MaxLines }

YamlFixers == { "final-yaml-fix", "fix-config-schema-indentation", "fix-schema-refs" }
Fixers == YamlFixers \cup { "fix_any_types" }

\* the call of the fixer of a script on a file holding content
Fixer(name, content) ==
    CASE name = "final-yaml-fix" -> final_fix_yaml_schema_indentation(content)
      [] name = "fix-config-schema-indentation" ->
             config_fix_yaml_schema_indentation(content)
      [] name = "fix-schema-refs" -> fix_schema_ref_indentation(content)
      [] OTHER -> fix_any_types_in_file(content)

(***************************************************************************)
(* Part 3: recreate-config-files.py and recreate-config-files-fixed.py.     *)
(* A dict is the sequence of its <<file name, config>> pairs in insertion   *)
(* order, a config the function from its keys to their values.  A file is   *)
(* whether it exists and the pieces of text written to it, and a piece is   *)
(* the template it comes from, the values its placeholders were filled      *)
(* with, and whether str.format has turned its `{{` and `}}` into braces.   *)
(***************************************************************************)
Config3(name, id, ref) == [config_name |-> name, operation_id |-> id, schema_ref |-> ref]
Config2(name, id) == [config_name |-> name, operation_id |-> id]

\* CONFIG_MAPPINGS of recreate-config-files-fixed.py
CONFIG_MAPPINGS ==
    << <<"auth.yaml", Config3("authentication", "auth", "/AuthConfig")>>,
       <<"dns.yaml", Config3("DNS", "dns", "/DNSValidatorConfigJSON")>>,
       <<"logging.yaml", Config3("logging", "logging", "/LoggingConfig")>>,
       <<"rate-limiter.yaml", Config3("rate limiter", "rate_limiter", "/RateLimiterConfig")>>,
       <<"worker.yaml", Config3("worker", "worker", "/WorkerConfig")>> >>

GENERIC_CONFIG_MAPPINGS ==
    << <<"http.yaml", Config2("HTTP", "http")>>,
       <<"proxy-manager.yaml", Config2("proxy manager", "proxy_manager")>>,
       <<"server.yaml", Config2("server", "server")>> >>

\* CONFIG_MAPPINGS of recreate-config-files.py
CONFIG_MAPPINGS_unfixed ==
    << <<"auth.yaml", Config3("authentication", "auth", "/AuthConfig")>>,
       <<"dns.yaml", Config3("DNS", "dns", "/DNSValidatorConfigJSON")>>,
       <<"http.yaml", Config3("HTTP", "http", "/HTTPConfig")>>,
       <<"logging.yaml", Config3("logging", "logging", "/LoggingConfig")>>,
       <<"proxy-manager.yaml", Config3("proxy manager", "proxy_manager", "/ProxyManagerConfig")>>,
       <<"rate-limiter.yaml", Config3("rate limiter", "rate_limiter", "/RateLimiterConfig")>>,
       <<"server.yaml", Config3("server", "server", "/ServerConfig")>>,
       <<"worker.yaml", Config3("worker", "worker", "/WorkerConfig")>> >>

Recreators == { "recreate-config-files", "recreate-config-files-fixed" }

\* the dict the first loop of a script goes over
ConfigMappingsOf(name) ==
    IF name = "recreate-config-files-fixed" THEN CONFIG_MAPPINGS
    ELSE CONFIG_MAPPINGS_unfixed

\* the dict the second loop goes over; recreate-config-files.py has no second
\* loop
GenericMappingsOf(name) ==
    IF name = "recreate-config-files-fixed" THEN GENERIC_CONFIG_MAPPINGS ELSE <<>>

\* the replacement fields of each template
Fields(template) ==
    CASE template = "CONFIG_TEMPLATE" -> { "config_name", "operation_id", "schema_ref" }
      [] template = "GENERIC_CONFIG_TEMPLATE" -> { "config_name", "operation_id" }
      [] OTHER -> {}

\* template.format(**config): raises KeyError when config lacks a field of the
\* template, and does not look at the keys the template does not name
FormatRaises(template, config) == ~(Fields(template) \subseteq DOMAIN config)

Format(template, config) ==
    [template |-> template,
     args |-> [f \in Fields(template) |-> config[f]],
     braces |-> "single"]

\* a template written as it is, without str.format
Unformatted(template) == [template |-> template, args |-> <<>>, braces |-> "double"]

NoFile == [exists |-> FALSE, content |-> <<>>]
Earlier == [exists |-> TRUE, content |-> <<"earlier content">>]

\* a faulty variant: the file is opened with 'a'
AppendMode(old, piece) == [exists |-> TRUE, content |-> Append(old.content, piece)]

\* with open(path, 'w') as f: f.write(piece)
Overwrite(old, piece) == [exists |-> TRUE, content |-> <<piece>>]

\* the files of the directory: the nine the scripts write and one they do not
ConfigFiles ==
    { "features.yaml" } \cup { CONFIG_MAPPINGS_unfixed[i][1] : i \in 1..Len(CONFIG_MAPPINGS_unfixed) }
        \cup { "other.yaml" }

\* the directory before the first run: some of the files exist
Directories ==
    { [f \in ConfigFiles |-> IF f \in S \/ f = "other.yaml" THEN Earlier ELSE NoFile] :
        S \in SUBSET { "features.yaml", "auth.yaml", "http.yaml", "worker.yaml" } }

(***************************************************************************)
(* A behaviour is one script run on one file.                               *)
(*   script  the script that is run                                         *)
(*   pc      where the script is: for the synchronizer the statement of     *)
(*           main it is at; "done" after the last one, "returned" when a    *)
(*           fixer has returned, "failed" when an exception left the script *)
(*   err     the exception that was raised                                  *)
(* The synchronizer's main, one action per statement, with the ways each    *)
(* can raise:                                                               *)
(*   file    the content of backend/docs/openapi.yaml                       *)
(*   doc     the variable `openapi` (NoDoc before load_yaml returns)        *)
(*   log     the lines printed in this run                                  *)
(*   run     the number of the run                                          *)
(*   file0   the content of the file when this run started                  *)
(*   loaded  the document as load_yaml returned it in this run              *)
(*   wrote   whether save_yaml opened the file for writing in this run      *)
(*   prev    the document as it was when the last removal pass was called   *)
(*   stage   the statement of main that ran last                            *)
(*   runs    the runs completed before this one: what each printed and the  *)
(*           file it left                                                   *)
(* The fixers, one action per outcome of a call:                            *)
(*   text    the content of the file the fixer is called on                 *)
(*   text0   the content of that file before the call                       *)
(*   ret     what the call returned, "none" while it has not                *)
(*   fwrote  whether the call opened the file for writing                   *)
(***************************************************************************)
SyncIdle ==
    /\ doc = NoDoc
    /\ loaded = NoDoc
    /\ log = <<>>
    /\ run = 1
    /\ wrote = FALSE
    /\ prev = NoDoc
    /\ stage = "start"
    /\ runs = <<>>

FixIdle ==
    /\ text0 = text
    /\ ret = "none"
    /\ fwrote = FALSE

CfgIdle ==
    /\ cfg_files = <<>>
    /\ written_files = <<>>
    /\ after_first = <<>>
    /\ cfg_run = 1

PassIdle ==
    /\ src_lines = <<>>
    /\ fixed_lines = <<>>
    /\ line_i = 1
    /\ base_indent = 0
    /\ prev_i = 1
    /\ branch = "none"
    /\ iters = 0

InitSync ==
    /\ script = "sync_openapi_with_backend"
    /\ file \in Files
    /\ file0 = file
    /\ SyncIdle
    /\ text = <<>>
    /\ FixIdle
    /\ PassIdle
    /\ CfgIdle
    /\ pc = "start"
    /\ err = ""

InitFix ==
    /\ script \in Fixers
    /\ text \in Texts(IF script \in YamlFixers THEN YamlLines ELSE TsLines)
    /\ FixIdle
    /\ file = <<>>
    /\ file0 = file
    /\ SyncIdle
    /\ PassIdle
    /\ CfgIdle
    /\ pc = "fix"
    /\ err = ""

\* final-yaml-fix.py run statement by statement
InitPass ==
    /\ script = "final-yaml-fix"
    /\ text \in Texts(YamlLines)
    /\ FixIdle
    /\ file = <<>>
    /\ file0 = file
    /\ SyncIdle
    /\ PassIdle
    /\ CfgIdle
    /\ pc = "read"
    /\ err = ""

\* one of the recreate scripts run on a directory
InitRecreate ==
    /\ script \in Recreators
    /\ cfg_files \in Directories
    /\ written_files = <<>>
    /\ after_first = <<>>
    /\ cfg_run = 1
    /\ text = <<>>
    /\ FixIdle
    /\ file = <<>>
    /\ file0 = file
    /\ SyncIdle
    /\ PassIdle
    /\ pc = "recreate"
    /\ err = ""

Init == InitSync \/ InitFix \/ InitPass \/ InitRecreate

Raise(e) == pc' = "failed" /\ err' = e

\* load_yaml returns
LoadOk ==
    /\ pc = "start"
    /\ Parse(file).ok
    /\ doc' = Parse(file).val
    /\ loaded' = doc'
    /\ pc' = "loaded"
    /\ stage' = "load"
    /\ UNCHANGED <<file, err, log, run, file0, wrote, prev, runs, script, fixVars, passVars, cfgVars>>

\* a faulty variant: malformed content is caught and taken for an empty document
LoadParseErrorAsEmpty ==
    /\ pc = "start"
    /\ ~Parse(file).ok
    /\ doc' = EmptyMap
    /\ loaded' = doc'
    /\ pc' = "loaded"
    /\ stage' = "load"
    /\ UNCHANGED <<file, err, log, run, file0, wrote, prev, runs, script, fixVars, passVars, cfgVars>>

\* yaml.safe_load raises on malformed content
LoadParseError ==
    /\ pc = "start"
    /\ ~Parse(file).ok
    /\ Raise("ParseError")
    /\ stage' = "load"
    /\ UNCHANGED <<file, doc, log, run, file0, loaded, wrote, prev, runs, script, fixVars, passVars, cfgVars>>

\* open(path, "r") raises: the file cannot be read
LoadIOError ==
    /\ pc = "start"
    /\ Raise("IOError")
    /\ stage' = "load"
    /\ UNCHANGED <<file, doc, log, run, file0, loaded, wrote, prev, runs, script, fixVars, passVars, cfgVars>>

\* the outcome of a removal pass r, which leaves main at `next` when it returns
Pass(r, next) ==
    /\ prev' = doc
    /\ doc' = r.doc
    /\ log' = log \o r.log
    /\ pc' = IF r.err = "" THEN next ELSE "failed"
    /\ err' = r.err
    /\ UNCHANGED <<file, run, file0, loaded, wrote, runs, script, fixVars, passVars, cfgVars>>

RemovePaths ==
    /\ pc = "loaded"
    /\ Pass(remove_paths(doc), "paths_removed")
    /\ stage' = "remove_paths"

RemoveUserFields ==
    /\ pc = "paths_removed"
    /\ Pass(remove_user_fields(doc), "fields_removed")
    /\ stage' = "remove_user_fields"

SaveOk ==
    /\ pc = "fields_removed"
    /\ file' = Dump(doc)
    /\ wrote' = TRUE
    /\ pc' = "saved"
    /\ stage' = "save"
    /\ UNCHANGED <<doc, err, log, run, file0, loaded, prev, runs, script, fixVars, passVars, cfgVars>>

\* open(path, "w") raises (no permission): the file is not touched
SaveOpenError ==
    /\ pc = "fields_removed"
    /\ Raise("IOError")
    /\ stage' = "save"
    /\ UNCHANGED <<file, doc, log, run, file0, loaded, wrote, prev, runs, script, fixVars, passVars, cfgVars>>

\* open(path, "w") has truncated the file and a write raises (disk error)
\* after n lines of the document reached the file
SaveWriteError ==
    /\ pc = "fields_removed"
    /\ \E n \in 0..(Len(Dump(doc)) - 1) : file' = SubSeq(Dump(doc), 1, n)
    /\ wrote' = TRUE
    /\ Raise("IOError")
    /\ stage' = "save"
    /\ UNCHANGED <<doc, log, run, file0, loaded, prev, runs, script, fixVars, passVars, cfgVars>>

\* print("openapi.yaml updated to match Go backend.")
Confirm ==
    /\ pc = "saved"
    /\ log' = Append(log, LogLine("updated", "", ""))
    /\ pc' = "done"
    /\ stage' = "print"
    /\ UNCHANGED <<file, doc, err, run, file0, loaded, wrote, prev, runs, script, fixVars, passVars, cfgVars>>

\* the script is run again on the file the run before it wrote
Rerun ==
    /\ pc = "done"
    /\ run < MaxRuns
    /\ run' = run + 1
    /\ file0' = file
    /\ doc' = NoDoc
    /\ loaded' = NoDoc
    /\ log' = <<>>
    /\ wrote' = FALSE
    /\ prev' = NoDoc
    /\ stage' = "start"
    /\ pc' = "start"
    /\ runs' = Append(runs, [log |-> log, file |-> file])
    /\ UNCHANGED <<file, err, script, fixVars, passVars, cfgVars>>

\* the fixer reads the file, rewrites the content and writes it if it changed
FixerReturns ==
    /\ pc = "fix"
    /\ text' = Fixer(script, text).file
    /\ fwrote' = Fixer(script, text).wrote
    /\ ret' = Fixer(script, text).ret
    /\ pc' = "returned"
    /\ UNCHANGED <<text0, err, script, syncVars, passVars, cfgVars>>

\* an exception in a fixer: fix_any_types_in_file catches it, prints it and
\* returns False, the other fixers let it go
FixerRaise(e) ==
    /\ err' = e
    /\ pc' = IF script = "fix_any_types" THEN "returned" ELSE "failed"
    /\ ret' = IF script = "fix_any_types" THEN "False" ELSE "none"

\* open(file_path, 'r') or f.read() raises
FixerReadError ==
    /\ pc = "fix"
    /\ FixerRaise("IOError")
    /\ UNCHANGED <<text, text0, fwrote, script, syncVars, passVars, cfgVars>>

\* the content changed and open(file_path, 'w') raises: the file is not touched
FixerOpenError ==
    /\ pc = "fix"
    /\ Fixer(script, text).wrote
    /\ FixerRaise("IOError")
    /\ UNCHANGED <<text, text0, fwrote, script, syncVars, passVars, cfgVars>>

\* the content changed, open(file_path, 'w') has truncated the file and
\* f.write raises with the file left empty or holding the first n lines
FixerWriteError ==
    /\ pc = "fix"
    /\ Fixer(script, text).wrote
    /\ \E n \in 0..(Len(Fixer(script, text).file) - 1) :
          text' = IF n = 0 THEN <<TLine(0, "")>>
                  ELSE SubSeq(Fixer(script, text).file, 1, n)
    /\ fwrote' = TRUE
    /\ FixerRaise("IOError")
    /\ UNCHANGED <<text0, script, syncVars, passVars, cfgVars>>

(***************************************************************************)
(* The line pass of final-yaml-fix.py, one action per iteration of its      *)
(* loops and per branch of the loop body:                                   *)
(*   src_lines    `lines`, the content after pattern1 split at the newlines *)
(*   fixed_lines  the lines emitted so far                                  *)
(*   line_i       the index `i`, counted from 1                             *)
(*   base_indent  the indentation of the `application/json:` line of the    *)
(*                block the inner loop is in                                *)
(*   prev_i       the index when the last iteration started                 *)
(*   branch       the branch the last iteration took                        *)
(*   iters        the number of iterations of the two loops so far          *)
(* pc is "read" before the file is read, "outer" at the test of the outer   *)
(* loop and "inner" at the test of the inner loop.                          *)
(***************************************************************************)
\* the file is read, pattern1 substituted and the content split
ReadAndSplit ==
    /\ pc = "read"
    /\ src_lines' = SubSchemaIndent(text, 1, FALSE)
    /\ fixed_lines' = <<>>
    /\ line_i' = 1
    /\ pc' = "outer"
    /\ UNCHANGED <<base_indent, prev_i, branch, iters, err, script, syncVars, fixVars, cfgVars>>

\* an iteration that emits line `out` for the line at index i and goes on at
\* the test of loop `next`
Emit(out, taken, next) ==
    /\ fixed_lines' = Append(fixed_lines, out)
    /\ prev_i' = line_i
    /\ line_i' = line_i + 1
    /\ branch' = taken
    /\ iters' = iters + 1
    /\ pc' = next
    /\ UNCHANGED <<src_lines, err, script, syncVars, fixVars, cfgVars>>

\* outer loop: 'application/json:' in line
OuterAppJson ==
    /\ pc = "outer"
    /\ line_i <= Len(src_lines)
    /\ HasAppJson(src_lines[line_i])
    /\ base_indent' = src_lines[line_i].ind
    /\ Emit(src_lines[line_i], "outer_appjson", "inner")

\* outer loop: any other line
OuterOther ==
    /\ pc = "outer"
    /\ line_i <= Len(src_lines)
    /\ ~HasAppJson(src_lines[line_i])
    /\ Emit(src_lines[line_i], "outer_other", "outer")
    /\ UNCHANGED base_indent

\* the test of the inner loop at index i, and the line it is at
InInner == pc = "inner" /\ line_i <= Len(src_lines)
next_line == src_lines[line_i]

\* inner loop: an empty line
InnerBlank ==
    /\ InInner
    /\ IsBlank(next_line)
    /\ Emit(next_line, "inner_blank", "inner")
    /\ UNCHANGED base_indent

\* a faulty variant: the index is advanced before the break, so that the line
\* that ends the block is emitted by the inner loop
InnerBreakConsumesLine ==
    /\ InInner
    /\ ~IsBlank(next_line)
    /\ next_line.ind <= base_indent
    /\ Emit(next_line, "inner_break", "outer")
    /\ UNCHANGED base_indent

\* inner loop: a line indented no more than the application/json line: break
InnerBreak ==
    /\ InInner
    /\ ~IsBlank(next_line)
    /\ next_line.ind <= base_indent
    /\ prev_i' = line_i
    /\ branch' = "inner_break"
    /\ iters' = iters + 1
    /\ pc' = "outer"
    /\ UNCHANGED <<src_lines, fixed_lines, line_i, base_indent, err, script,
                   syncVars, fixVars, cfgVars>>

\* the line is in the block of the application/json line
InBlock == InInner /\ ~IsBlank(next_line) /\ next_line.ind > base_indent

\* inner loop: next_content == 'schema:'
InnerSchema ==
    /\ InBlock
    /\ Strip(next_line.txt) = "schema:"
    /\ Emit(TLine(base_indent + 2, "schema:"), "inner_schema", "inner")
    /\ UNCHANGED base_indent

\* inner loop: next_content starts with a schema keyword or list item
InnerKeyword ==
    /\ InBlock
    /\ Strip(next_line.txt) # "schema:"
    /\ FinalKeywordLine(next_line)
    /\ Emit(TLine(base_indent + 4, Strip(next_line.txt)), "inner_keyword", "inner")
    /\ UNCHANGED base_indent

\* the line is other content of the block
OtherContent ==
    InBlock /\ Strip(next_line.txt) # "schema:" /\ ~FinalKeywordLine(next_line)

\* next_indent > base_indent + 4 and excess_indent >= 2
OverIndented ==
    /\ next_line.ind > base_indent + 4
    /\ next_line.ind - (base_indent + 4) >= 2

\* inner loop: other content, over-indented by two or more
InnerExcess ==
    /\ OtherContent
    /\ OverIndented
    /\ Emit(TLine(next_line.ind - 2, Strip(next_line.txt)), "inner_excess", "inner")
    /\ UNCHANGED base_indent

\* inner loop: other content, kept as it is
InnerDefault ==
    /\ OtherContent
    /\ ~OverIndented
    /\ Emit(next_line, "inner_default", "inner")
    /\ UNCHANGED base_indent

\* the inner loop ends with the lines
InnerEnd ==
    /\ pc = "inner"
    /\ line_i > Len(src_lines)
    /\ pc' = "outer"
    /\ branch' = "inner_end"
    /\ UNCHANGED <<src_lines, fixed_lines, line_i, base_indent, prev_i, iters, err,
                   script, syncVars, fixVars, cfgVars>>

\* the outer loop ends: the lines are joined, and written if they differ from
\* the content read
JoinAndWrite ==
    /\ pc = "outer"
    /\ line_i > Len(src_lines)
    /\ text' = fixed_lines
    /\ fwrote' = (fixed_lines # text)
    /\ ret' = IF fixed_lines # text THEN "True" ELSE "False"
    /\ branch' = "joined"
    /\ pc' = "returned"
    /\ UNCHANGED <<text0, src_lines, fixed_lines, line_i, base_indent, prev_i, iters,
                   err, script, syncVars, cfgVars>>

(***************************************************************************)
(* main of the recreate scripts, one action per file written:               *)
(*   cfg_files      the files of the config directory                       *)
(*   written_files  the names of the files written in this run, in order    *)
(*   after_first    the files as the first run left them                    *)
(*   cfg_run        the number of the run                                   *)
(* pc is "recreate" while main runs and "recreated" when it has returned.   *)
(***************************************************************************)
\* the number of files main has written when its first loop ends
AfterConfigs == 1 + Len(ConfigMappingsOf(script))

WriteFile(name, piece) ==
    /\ cfg_files' = [cfg_files EXCEPT ![name] = Overwrite(@, piece)]
    /\ written_files' = Append(written_files, name)
    /\ UNCHANGED <<after_first, cfg_run, pc, err, script, syncVars, fixVars, passVars>>

\* features.yaml is written first, from the template as it is
WriteFeatures ==
    /\ pc = "recreate"
    /\ written_files = <<>>
    /\ WriteFile("features.yaml", Unformatted("FEATURES_TEMPLATE"))

\* an iteration of the loop over a dict: the template is filled in with the
\* config of the entry and written
WriteEntry(entry, template) ==
    IF FormatRaises(template, entry[2])
    THEN /\ Raise("KeyError")
         /\ UNCHANGED <<cfgVars, script, syncVars, fixVars, passVars>>
    ELSE WriteFile(entry[1], Format(template, entry[2]))

\* for filename, config in CONFIG_MAPPINGS.items()
WriteConfigFile ==
    /\ pc = "recreate"
    /\ Len(written_files) \in 1..(AfterConfigs - 1)
    /\ WriteEntry(ConfigMappingsOf(script)[Len(written_files)], "CONFIG_TEMPLATE")

\* for filename, config in GENERIC_CONFIG_MAPPINGS.items()
WriteGenericFile ==
    /\ pc = "recreate"
    /\ Len(written_files) - AfterConfigs \in 0..(Len(GenericMappingsOf(script)) - 1)
    /\ WriteEntry(GenericMappingsOf(script)[Len(written_files) - AfterConfigs + 1],
                  "GENERIC_CONFIG_TEMPLATE")

\* the last loop has ended: the closing line is printed and main returns
RecreateDone ==
    /\ pc = "recreate"
    /\ Len(written_files) = AfterConfigs + Len(GenericMappingsOf(script))
    /\ pc' = "recreated"
    /\ after_first' = IF cfg_run = 1 THEN cfg_files ELSE after_first
    /\ UNCHANGED <<cfg_files, written_files, cfg_run, err, script, syncVars, fixVars,
                   passVars>>

\* the file main is about to write
NextFile ==
    LET n == Len(written_files)
    IN  IF n = 0 THEN "features.yaml"
        ELSE IF n < AfterConfigs THEN ConfigMappingsOf(script)[n][1]
        ELSE GenericMappingsOf(script)[n - AfterConfigs + 1][1]

Writing ==
    /\ pc = "recreate"
    /\ Len(written_files) < AfterConfigs + Len(GenericMappingsOf(script))

\* open(path, 'w') raises: the file is not touched and main ends
RecreateOpenError ==
    /\ Writing
    /\ Raise("IOError")
    /\ UNCHANGED <<cfgVars, script, syncVars, fixVars, passVars>>

\* open(path, 'w') has truncated the file and f.write raises
RecreateWriteError ==
    /\ Writing
    /\ cfg_files' = [cfg_files EXCEPT ![NextFile] = [exists |-> TRUE, content |-> <<>>]]
    /\ Raise("IOError")
    /\ UNCHANGED <<written_files, after_first, cfg_run, script, syncVars, fixVars,
                   passVars>>

\* the script is run again on the directory as the run before left it
RecreateAgain ==
    /\ pc = "recreated"
    /\ cfg_run < MaxRuns
    /\ cfg_run' = cfg_run + 1
    /\ written_files' = <<>>
    /\ pc' = "recreate"
    /\ UNCHANGED <<cfg_files, after_first, err, script, syncVars, fixVars, passVars>>

Next ==
    \/ LoadOk
    \/ LoadParseError
    \/ LoadIOError
    \/ RemovePaths
    \/ RemoveUserFields
    \/ SaveOk
    \/ SaveOpenError
    \/ SaveWriteError
    \/ Confirm
    \/ Rerun
    \/ FixerReturns
    \/ FixerReadError
    \/ FixerOpenError
    \/ FixerWriteError
    \/ ReadAndSplit
    \/ OuterAppJson
    \/ OuterOther
    \/ InnerBlank
    \/ InnerBreak
    \/ InnerSchema
    \/ InnerKeyword
    \/ InnerExcess
    \/ InnerDefault
    \/ InnerEnd
    \/ JoinAndWrite
    \/ WriteFeatures
    \/ WriteConfigFile
    \/ WriteGenericFile
    \/ RecreateDone
    \/ RecreateOpenError
    \/ RecreateWriteError
    \/ RecreateAgain

Spec == Init /\ [][Next]_vars

(***************************************************************************)
(* Properties of the synchronizer.                                          *)
(***************************************************************************)
\* the `paths` and `components.schemas` mappings of a document
PathsOf(d) == Get(d, "paths")
SchemasOf(d) == Get(Get(d, "components"), "schemas")

HasPathsMap(d) == IsMap(d) /\ HasKey(d, "paths") /\ IsMap(PathsOf(d))

HasSchemasMap(d) ==
    /\ IsMap(d) /\ HasKey(d, "components") /\ IsMap(Get(d, "components"))
    /\ HasKey(Get(d, "components"), "schemas") /\ IsMap(SchemasOf(d))

Listed(key, names) == \E i \in 1..Len(names) : names[i] = key

\* the entries of mapping m whose key is not in the set gone, in m's order
Without(m, gone) == SelectSeq(m.items, LAMBDA p : p[1] \notin gone)

\* C1: when `paths` is a mapping, after remove_paths no key listed in
\* REMOVE_ENDPOINTS is a key of `paths`, and the other keys are all there, with
\* their values and in their order; a `paths` holding no listed key is unchanged.
C1_RemovePathsContract ==
    (stage = "remove_paths" /\ HasPathsMap(prev)) =>
        /\ pc = "paths_removed"
        /\ HasPathsMap(doc)
        /\ \A i \in 1..Len(PathsOf(doc).items) :
              ~Listed(PathsOf(doc).items[i][1], REMOVE_ENDPOINTS)
        /\ PathsOf(doc).items = Without(PathsOf(prev), { Ep })
        /\ (~HasKey(PathsOf(prev), Ep) => PathsOf(doc) = PathsOf(prev))

\* remove_paths ran on a `paths` holding the listed key after another key, and
\* only the other key is left
C1_Witness ==
    /\ stage = "remove_paths"
    /\ HasPathsMap(prev)
    /\ Keys(PathsOf(prev)) = <<"/api/v2/users", Ep>>
    /\ Keys(PathsOf(doc)) = <<"/api/v2/users">>

C3_RemovalNeverFails ==
    stage \in { "remove_paths", "remove_user_fields" } => pc # "failed"

\* C4: remove_user_fields leaves every entry of `components.schemas` that is not
\* a mapping, or is a mapping without `properties`, as it was, and where no entry
\* has `properties` it does not raise.
C4_SkippedSchemasUntouched ==
    (stage = "remove_user_fields" /\ HasSchemasMap(prev)) =>
        /\ HasSchemasMap(doc)
        /\ Len(SchemasOf(doc).items) = Len(SchemasOf(prev).items)
        /\ \A i \in 1..Len(SchemasOf(prev).items) :
              ~HasProperties(SchemasOf(prev).items[i][2]) =>
                  SchemasOf(doc).items[i] = SchemasOf(prev).items[i]
        /\ (\A i \in 1..Len(SchemasOf(prev).items) :
               ~HasProperties(SchemasOf(prev).items[i][2])) => pc = "fields_removed"

\* remove_user_fields ran over a plain string entry and a mapping entry without
\* `properties`
C4_Witness ==
    /\ stage = "remove_user_fields"
    /\ HasSchemasMap(prev)
    /\ Len(SchemasOf(prev).items) = 2
    /\ SchemasOf(prev).items[1][2] = Str("placeholder")
    /\ SchemasOf(prev).items[2][2] = Map(<<<<"type", Str("string")>>>>)
    /\ SchemasOf(doc) = SchemasOf(prev)
    /\ pc = "fields_removed"

\* C5 (the claim as stated): on a document without a `paths` key remove_paths
\* does not raise and leaves the document equal to what it was.
C5_NoPathsIsNoOp ==
    (stage = "remove_paths" /\ IsMap(prev) /\ ~HasKey(prev, "paths")) =>
        (pc = "paths_removed" /\ doc = prev)

\* the lines of a log that report a removal
Removals(l) == SelectSeq(l, LAMBDA x : x.msg # "updated")

\* C6: a run on the file an earlier run wrote deletes nothing, prints no
\* removal line, does not raise in a removal pass, and writes the file it read.
C6_SecondRunChangesNothing ==
    run >= 2 =>
        /\ file0 = runs[run - 1].file
        /\ stage \in { "remove_paths", "remove_user_fields" } => pc # "failed"
        /\ stage \in { "remove_paths", "remove_user_fields", "save", "print" } =>
              (doc = loaded /\ Removals(log) = <<>>)
        /\ pc \in { "saved", "done" } => file = runs[run - 1].file

\* a second run completed after a first run that removed an endpoint and a field
C6_Witness ==
    /\ run = 2
    /\ pc = "done"
    /\ Len(Removals(runs[1].log)) >= 2
    /\ file = runs[1].file

\* C7: when load_yaml raises, on malformed content or on an unreadable file,
\* main ends there: no removal pass has run, the file is as it was, nothing
\* was printed and nothing more happens.
C7_LoadFailureAborts ==
    (~Parse(file0).ok \/ (stage = "load" /\ pc = "failed")) =>
        /\ pc \in { "start", "failed" }
        /\ file = file0
        /\ ~wrote
        /\ doc = NoDoc
        /\ log = <<>>
        /\ pc = "failed" => ~ENABLED Next

\* load_yaml raised on a malformed file
C7_Witness ==
    /\ pc = "failed"
    /\ stage = "load"
    /\ err = "ParseError"
    /\ file \in Malformed

\* the document after remove_paths alone, and after both passes
AfterPaths(d) == remove_paths(d).doc
AfterBoth(d) == remove_user_fields(AfterPaths(d)).doc

\* C8 (the claim as stated): the file changes only in save_yaml, save_yaml is
\* called only once both passes have returned, and the file never holds the
\* document with remove_paths applied and remove_user_fields not.
C8_NoHalfMutatedFile ==
    /\ file # file0 => wrote
    /\ wrote => /\ stage \in { "save", "print" }
                /\ doc = AfterBoth(loaded)
    /\ (loaded # NoDoc /\ file # file0 /\ AfterPaths(loaded) # AfterBoth(loaded)) =>
           file # Dump(AfterPaths(loaded))

\* C9 (the claim as stated): the file always holds the whole original document
\* or the whole mutated document.
C9_NoPartialWrites ==
    \/ file = file0
    \/ doc # NoDoc /\ file = Dump(doc)

(***************************************************************************)
(* Properties of the write gates.                                           *)
(***************************************************************************)
\* the rewrite of each fixer
TransformOf(name, content) ==
    CASE name = "final-yaml-fix" -> FinalTransform(content)
      [] name = "fix-config-schema-indentation" -> ConfigTransform(content)
      [] name = "fix-schema-refs" -> RefsTransform(content)
      [] OTHER -> AnyTransform(content)

\* C10: once both removal passes have returned the synchronizer goes on to
\* write the file whatever they changed, and a run that completes has written
\* the document; a fixer whose file operations do not raise writes the file if
\* and only if the rewritten content differs from the content it read, writes
\* the rewritten content, and returns True exactly when it wrote.
C10_WriteGates ==
    /\ (stage = "remove_user_fields" /\ pc # "failed") => ENABLED SaveOk
    /\ pc \in { "saved", "done" } => (wrote /\ file = Dump(doc))
    /\ (script \in Fixers /\ pc = "returned" /\ err = "") =>
          /\ fwrote <=> TransformOf(script, text0) # text0
          /\ ret = "True" <=> fwrote
          /\ text = IF fwrote THEN TransformOf(script, text0) ELSE text0

\* the synchronizer wrote the file of a run in which nothing was removed
C10_Witness ==
    /\ pc = "done"
    /\ wrote
    /\ doc = loaded
    /\ Removals(log) = <<>>
    /\ run = 1

(***************************************************************************)
(* Properties of the log.                                                   *)
(***************************************************************************)
\* the lines that report the keys of REMOVE_ENDPOINTS that `paths` held in
\* document before and does not hold in document after
DeletedEndpoints(before, after) ==
    IF ~HasPathsMap(before) \/ ~HasPathsMap(after) THEN <<>>
    ELSE LET gone == SelectSeq(REMOVE_ENDPOINTS,
                         LAMBDA ep : /\ HasKey(PathsOf(before), ep)
                                     /\ ~HasKey(PathsOf(after), ep))
         IN  [i \in 1..Len(gone) |-> LogLine("Removing endpoint", gone[i], "")]

\* the same for the fields of REMOVE_USER_FIELDS in the `properties` of one
\* schema entry
DeletedOfSchema(name, before, after) ==
    IF \/ ~HasProperties(before) \/ ~IsMap(Get(before, "properties"))
       \/ ~HasProperties(after) \/ ~IsMap(Get(after, "properties"))
    THEN <<>>
    ELSE LET gone == SelectSeq(REMOVE_USER_FIELDS,
                         LAMBDA f : /\ HasKey(Get(before, "properties"), f)
                                    /\ ~HasKey(Get(after, "properties"), f))
         IN  [i \in 1..Len(gone) |-> LogLine("Removing field", gone[i], name)]

\* and for the schema entries from the i-th on, in the order of `schemas`
RECURSIVE DeletedFieldsFrom(_, _, _)
DeletedFieldsFrom(before, after, i) ==
    IF i > Len(before.items) \/ i > Len(after.items) THEN <<>>
    ELSE DeletedOfSchema(before.items[i][1], before.items[i][2], after.items[i][2])
             \o DeletedFieldsFrom(before, after, i + 1)

DeletedFields(before, after) ==
    IF ~HasSchemasMap(before) \/ ~HasSchemasMap(after) THEN <<>>
    ELSE DeletedFieldsFrom(SchemasOf(before), SchemasOf(after), 1)

\* the lines of a log that confirm the update
Confirmations(l) == SelectSeq(l, LAMBDA x : x.msg = "updated")

\* C11 (the claim as stated): the removal lines printed in a run are, in
\* order, one line for each listed endpoint that was deleted from `paths` and
\* one line for each (schema, field) that was deleted from a `properties`, no
\* line without a deletion and no deletion without a line; and the confirmation
\* line is in the log only once save_yaml has written the whole document.
C11_LogMatchesDeletions ==
    /\ Removals(log) = DeletedEndpoints(loaded, doc) \o DeletedFields(loaded, doc)
    /\ Confirmations(log) # <<>> =>
          /\ pc = "done"
          /\ wrote
          /\ file = Dump(doc)
          /\ Confirmations(log) = <<log[Len(log)]>>

(***************************************************************************)
(* Properties of the line pass of final-yaml-fix.py.                        *)
(***************************************************************************)
\* the lines after line a up to line k are empty or indented more than line a
Deeper(a, k) ==
    \A j \in (a + 1)..k : IsBlank(src_lines[j]) \/ src_lines[j].ind > src_lines[a].ind

\* line k is a non-empty line of the block of the `application/json:` line a
InBlockOf(a, k) ==
    /\ a < k
    /\ HasAppJson(src_lines[a])
    /\ ~IsBlank(src_lines[k])
    /\ Deeper(a, k)

\* line e is the line that ends the block of the `application/json:` line a
EndsBlockOf(a, e) ==
    /\ a < e
    /\ HasAppJson(src_lines[a])
    /\ ~IsBlank(src_lines[e])
    /\ src_lines[e].ind <= src_lines[a].ind
    /\ Deeper(a, e - 1)

\* what the claim says line k of the block of line a is emitted as
EmittedAsBlockLine(a, k) ==
    LET b == src_lines[a].ind
    IN  /\ Strip(src_lines[k].txt) = "schema:" =>
               fixed_lines[k] = TLine(b + 2, "schema:")
        /\ FinalKeywordLine(src_lines[k]) =>
               fixed_lines[k] = TLine(b + 4, Strip(src_lines[k].txt))

\* the inner loop left at a break with the line it broke at still to emit
BreakLeavesLine ==
    branch = "inner_break" =>
        /\ pc = "outer"
        /\ line_i = prev_i
        /\ Len(fixed_lines) = line_i - 1
        /\ HasAppJson(next_line) => ENABLED OuterAppJson

\* C12 (the claim as stated): for every `application/json:` line, at
\* indentation b, every non-empty line of its block that has been emitted is
\* `schema:` at b+2 if it is `schema:` and is at b+4 if it starts with a schema
\* keyword or list item; the line that ends the block is not emitted by the
\* inner loop: the outer loop is at it with the line still to emit, and emits
\* it as it is.
C12_EveryAppJsonLine ==
    /\ \A a, k \in 1..Len(fixed_lines) : InBlockOf(a, k) => EmittedAsBlockLine(a, k)
    /\ \A a, e \in 1..Len(fixed_lines) :
           EndsBlockOf(a, e) => fixed_lines[e] = src_lines[e]
    /\ BreakLeavesLine

\* line a is an `application/json:` line that is not in the block of an earlier
\* `application/json:` line
OpensBlock(a) ==
    /\ HasAppJson(src_lines[a])
    /\ ~\E a0 \in 1..(a - 1) : HasAppJson(src_lines[a0]) /\ Deeper(a0, a)

\* C12 (as amended): the same for every `application/json:` line that is not
\* itself in the block of an earlier `application/json:` line.
C12_BlockLinesReindented ==
    /\ \A a, k \in 1..Len(fixed_lines) :
           (OpensBlock(a) /\ InBlockOf(a, k)) => EmittedAsBlockLine(a, k)
    /\ \A a, e \in 1..Len(fixed_lines) :
           (OpensBlock(a) /\ EndsBlockOf(a, e)) => fixed_lines[e] = src_lines[e]
    /\ BreakLeavesLine

\* the pass has ended on a block whose keyword line was nested deeper than b+4
\* and is emitted at b+4, and whose ending line is an `application/json:` line
C12_Witness ==
    /\ pc = "returned"
    /\ branch = "joined"
    /\ \E a, k, e \in 1..Len(fixed_lines) :
          /\ OpensBlock(a)
          /\ InBlockOf(a, k)
          /\ FinalKeywordLine(src_lines[k])
          /\ src_lines[k].ind > src_lines[a].ind + 4
          /\ fixed_lines[k].ind = src_lines[a].ind + 4
          /\ EndsBlockOf(a, e)
          /\ HasAppJson(src_lines[e])
          /\ OpensBlock(e)

\* the branches of the inner loop that do not break
InnerBranches ==
    { "inner_blank", "inner_schema", "inner_keyword", "inner_excess", "inner_default" }

\* the line pass goes on until it ends, and ends: while it is in a loop a step
\* is enabled, the index is within the lines or one past them, and the loops
\* have made no more iterations than one per line and one per break
PassTerminates ==
    /\ pc \in { "outer", "inner" } => ENABLED Next
    /\ line_i \in 1..(Len(src_lines) + 1)
    /\ iters <= 2 * Len(src_lines)
    /\ branch \in InnerBranches => line_i = prev_i + 1

\* the lines before the index are emitted, one line for each and in their
\* order, with the stripped content they had
LinesKept ==
    /\ Len(fixed_lines) = line_i - 1
    /\ branch = "joined" => Len(fixed_lines) = Len(src_lines)
    /\ \A k \in 1..Len(fixed_lines) :
           Strip(fixed_lines[k].txt) = Strip(src_lines[k].txt)

RECURSIVE Expand(_, _)
Expand(v, schemas) ==
    IF v.k = "alias" THEN Get(schemas, v.s)
    ELSE [v EXCEPT !.items =
             [i \in 1..Len(v.items) |-> <<v.items[i][1], Expand(v.items[i][2], schemas)>>]]

View(d) == IF HasSchemasMap(d) THEN Expand(d, SchemasOf(d)) ELSE d

\* the names of the positions of a list
IndexNames == <<"0", "1", "2">>

\* the places of a value: the sequences of keys (of positions, in a list) that
\* lead to a value in it, and for a scalar the scalar itself
RECURSIVE Places(_)
Places(v) ==
    IF v.k \in { "null", "str" } THEN { <<>>, <<"=", v.k, v.s>> }
    ELSE { <<>> } \cup
         UNION { { <<IF v.k = "map" THEN v.items[i][1] ELSE IndexNames[i]>> \o p :
                     p \in Places(v.items[i][2]) } : i \in 1..Len(v.items) }

\* the places of document before that document after does not have
Deleted(before, after) == Places(View(before)) \ Places(View(after))

\* the places a synchronization is to delete: a listed key of `paths`, a listed
\* key of the `properties` of a schema, and what is below them
MayDelete(p) ==
    \/ /\ Len(p) >= 2
       /\ p[1] = "paths"
       /\ Listed(p[2], REMOVE_ENDPOINTS)
    \/ /\ Len(p) >= 5
       /\ p[1] = "components"
       /\ p[2] = "schemas"
       /\ p[4] = "properties"
       /\ Listed(p[5], REMOVE_USER_FIELDS)

\* the value of a top-level key of a document as the program reads it
Part(d, key) == IF IsMap(d) /\ HasKey(d, key) THEN Get(View(d), key) ELSE NoDoc

\* C14 (the claim as stated): whatever a run has deleted from the document it
\* loaded is a listed key of `paths` or a listed key of the `properties` of a
\* schema, so that a field of the same name anywhere else is kept;
\* remove_paths leaves `components` as it was, and remove_user_fields leaves
\* `paths` as it was.
C14_OnlyListedKeysDeleted ==
    /\ loaded # NoDoc => \A p \in Deleted(loaded, doc) : MayDelete(p)
    /\ stage = "remove_paths" => Part(doc, "components") = Part(prev, "components")
    /\ stage = "remove_user_fields" => Part(doc, "paths") = Part(prev, "paths")

(***************************************************************************)
(* Properties of recreate-config-files-fixed.py.                            *)
(***************************************************************************)
\* the file names of a dict, in order and as a set
NamesOf(mappings) == [i \in 1..Len(mappings) |-> mappings[i][1]]
NameSet(mappings) == { mappings[i][1] : i \in 1..Len(mappings) }

\* the files in the order the claim gives
ClaimedOrder ==
    <<"features.yaml">> \o NamesOf(CONFIG_MAPPINGS) \o NamesOf(GENERIC_CONFIG_MAPPINGS)

\* the content the claim gives the n-th file of that order: one piece, from
\* the template of its group and the config of its entry
ClaimedContent(n) ==
    IF n = 1 THEN <<Unformatted("FEATURES_TEMPLATE")>>
    ELSE IF n <= 1 + Len(CONFIG_MAPPINGS)
    THEN <<Format("CONFIG_TEMPLATE", CONFIG_MAPPINGS[n - 1][2])>>
    ELSE <<Format("GENERIC_CONFIG_TEMPLATE",
                  GENERIC_CONFIG_MAPPINGS[n - 1 - Len(CONFIG_MAPPINGS)][2])>>

\* C15: recreate-config-files-fixed writes features.yaml, then the five files
\* of CONFIG_MAPPINGS, then the three of GENERIC_CONFIG_MAPPINGS, each once in a
\* run that completes, and each written file holds what its template and
\* config give, whatever it held before; no other file changes; the two
\* mappings share no file name and together name the eight files of
\* recreate-config-files' CONFIG_MAPPINGS; and a second run leaves the files
\* as the first left them.
C15_RecreateOverwritesOnce ==
    /\ NameSet(CONFIG_MAPPINGS) \cap NameSet(GENERIC_CONFIG_MAPPINGS) = {}
    /\ NameSet(CONFIG_MAPPINGS) \cup NameSet(GENERIC_CONFIG_MAPPINGS)
           = NameSet(CONFIG_MAPPINGS_unfixed)
    /\ Cardinality(NameSet(CONFIG_MAPPINGS)) = 5
    /\ Cardinality(NameSet(GENERIC_CONFIG_MAPPINGS)) = 3
    /\ (script = "recreate-config-files" /\ pc = "recreated") =>
           { written_files[i] : i \in 1..Len(written_files) }
               = { "features.yaml" } \cup NameSet(CONFIG_MAPPINGS)
                     \cup NameSet(GENERIC_CONFIG_MAPPINGS)
    /\ script = "recreate-config-files-fixed" =>
          /\ Len(written_files) <= Len(ClaimedOrder)
          /\ written_files = SubSeq(ClaimedOrder, 1, Len(written_files))
          /\ pc # "failed" =>
                \A n \in 1..Len(written_files) :
                    /\ cfg_files[ClaimedOrder[n]].exists
                    /\ cfg_files[ClaimedOrder[n]].content = ClaimedContent(n)
          /\ cfg_files["other.yaml"] = Earlier
          /\ pc = "recreated" =>
                /\ written_files = ClaimedOrder
                /\ \A n \in 1..Len(ClaimedOrder) :
                       cfg_files[ClaimedOrder[n]].content = ClaimedContent(n)
          /\ (pc = "recreated" /\ cfg_run >= 2) => cfg_files = after_first

\* a second run has completed on a directory in which some of the files
\* existed before the first run and some did not
C15_Witness ==
    /\ script = "recreate-config-files-fixed"
    /\ pc = "recreated"
    /\ cfg_run = 2
    /\ written_files = ClaimedOrder
    /\ cfg_files = after_first
    /\ cfg_files["http.yaml"].content =
           <<Format("GENERIC_CONFIG_TEMPLATE", Config2("HTTP", "http"))>>

====
